---- MODULE Spec2Model ----
(***************************************************************************)
(* A model of the file sharing server (server/rega.py) and of the SQLite   *)
(* wrapper (flla_new/db.py): the users, tokens and items tables, the upload *)
(* directory, and the request handlers.  Every SQL statement followed by    *)
(* its commit is one atomic step; a handler is the chain of its steps, so   *)
(* that two requests in flight interleave exactly where the code leaves     *)
(* the database between two statements.                                    *)
(***************************************************************************)
EXTENDS Integers, Sequences, FiniteSets, TLC

VARIABLES
    users,       \* rows of table users: [id, username, password_hash]
    nextUserId,  \* AUTOINCREMENT sequence of users.id
    tokens,      \* rows of table tokens: [token, user_id, expires_at]
    now,         \* now_ts(): the wall clock, in seconds
    items,       \* rows of table items
    nextItemId,  \* AUTOINCREMENT sequence of items.id
    blobs,       \* names of the files present in UPLOAD_DIR
    req,         \* per worker: the request being handled and its locals
    resp,        \* per worker: the last response sent
    dead,        \* history: token values a lookup found expired and deleted
    revoked,     \* history: token values a revocation deleted or found gone
    created      \* history: per file row, the values its INSERT was given

vars == <<users, nextUserId, tokens, now, items, nextItemId, blobs, req, resp, dead,
          revoked, created>>

identityVars == <<users, nextUserId, tokens, now, dead, revoked>>
storeVars == <<items, nextItemId, blobs, created>>

----------------------------------------------------------------------------
(* Bounds of the model and program constants. *)

\* Number of clock ticks the model lets pass.
MaxTicks == 3

\* Largest id the items AUTOINCREMENT sequence hands out.
MaxItems == 4

\* Number of rows the specifications of files let the items table take.
MaxFiles == 2

TOKEN_TTL_SECONDS == 30 * 24 * 3600

MAX_SHARE_CODE_ATTEMPTS == 50

\* One tick of the clock: half a token lifetime, so that a token is met
\* before, exactly at, and after its expiry time.
TickStep == TOKEN_TTL_SECONDS \div 2

Workers == {"w1", "w2"}

\* Values request.get_json() can carry for username (after strip()).
Usernames == {"alice", "bob"}

\* Outputs of secrets.token_hex(24).
TokenValues == {"t1", "t2"}

\* Outputs of secrets.token_hex(SHARE_CODE_BYTES).
Codes == {"c1", "c2"}

\* Outputs of secrets.token_hex(8) inside stored_name.
Rand == {"r1", "r2"}

\* SQL NULL in a text column.
NULL == "NULL"

Idle == [op |-> "idle"]

----------------------------------------------------------------------------
(* Responses. *)

make_error(op, status) == [op |-> op, status |-> status]

Reply(w, r) ==
    /\ req' = [req EXCEPT ![w] = Idle]
    /\ resp' = [resp EXCEPT ![w] = r]

Goto(w, r) ==
    /\ req' = [req EXCEPT ![w] = r]
    /\ UNCHANGED resp

----------------------------------------------------------------------------
(* Identity store: users and session tokens. *)

generate_password_hash(password) == <<"hash", password>>

check_password_hash(hash, password) == hash = <<"hash", password>>

\* SELECT ... FROM tokens t JOIN users u ON u.id = t.user_id WHERE t.token = ?
TokenRows(token) ==
    {t \in tokens : t.token = token /\ \E u \in users : u.id = t.user_id}

\* The comparison that decides expiry.
Expired_le(row, t) == row.expires_at <= t

Expired(row, t) == row.expires_at < t

\* What get_user_by_token returns for the database as it is now: the user id,
\* or 0 for None.
get_user_by_token(token) ==
    IF TokenRows(token) = {} THEN 0
    ELSE LET row == CHOOSE t \in TokenRows(token) : TRUE
         IN  IF Expired(row, now) THEN 0 ELSE row.user_id

\* INSERT INTO tokens: the primary key rejects a token value already stored.
TokenKeyTaken(token) == \E t \in tokens : t.token = token

create_token(token, user_id) ==
    tokens \cup {[token |-> token, user_id |-> user_id,
                  expires_at |-> now + TOKEN_TTL_SECONDS]}

\* users.username is UNIQUE.
UsernameTaken(username) == \E u \in users : u.username = username

\* register: validation and the SELECT that looks for the username.
RegisterCheck(w, username, password, email) ==
    /\ req[w] = Idle
    /\ IF username = "" \/ password = "" \/ email = ""
       THEN Reply(w, make_error("register", 400))
       ELSE IF UsernameTaken(username)
       THEN Reply(w, [op |-> "register", status |-> 409, step |-> "check",
                      username |-> username])
       ELSE Goto(w, [op |-> "register", pc |-> "insert", username |-> username,
                     password |-> password])
    /\ UNCHANGED <<identityVars, storeVars>>

\* register: INSERT INTO users and commit.  The UNIQUE constraint raises
\* sqlite3.IntegrityError, which register does not catch: a 500.
RegisterInsert(w) ==
    /\ req[w].op = "register" /\ req[w].pc = "insert"
    /\ IF UsernameTaken(req[w].username)
       THEN /\ Reply(w, [op |-> "register", status |-> 500, step |-> "insert",
                         username |-> req[w].username])
            /\ UNCHANGED <<users, nextUserId>>
       ELSE /\ users' = users \cup {[id |-> nextUserId, username |-> req[w].username,
                   password_hash |-> generate_password_hash(req[w].password)]}
            /\ nextUserId' = nextUserId + 1
            /\ Goto(w, [op |-> "register", pc |-> "token",
                        username |-> req[w].username, user_id |-> nextUserId])
    /\ UNCHANGED <<tokens, now, dead, revoked, storeVars>>

\* create_token as the last step of register or login.
IssueToken(w) ==
    /\ req[w].op \in {"register", "login"} /\ req[w].pc = "token"
    /\ \E token \in TokenValues :
        IF TokenKeyTaken(token)
        THEN /\ Reply(w, [op |-> req[w].op, status |-> 500, step |-> "token",
                          username |-> req[w].username])
             /\ UNCHANGED <<tokens, dead, revoked>>
        ELSE /\ tokens' = create_token(token, req[w].user_id)
             /\ dead' = dead \ {token}
             /\ revoked' = revoked \ {token}
             /\ Reply(w, [op |-> req[w].op,
                          status |-> IF req[w].op = "register" THEN 201 ELSE 200,
                          username |-> req[w].username, user_id |-> req[w].user_id,
                          token |-> token,
                          expiresAt |-> now + TOKEN_TTL_SECONDS])
    /\ UNCHANGED <<users, nextUserId, now, storeVars>>

\* login: the SELECT of the user and the password check.
LoginCheck(w, username, password) ==
    /\ req[w] = Idle
    /\ IF username = "" \/ password = ""
       THEN Reply(w, make_error("login", 400))
       ELSE IF \E u \in users : /\ u.username = username
                                /\ check_password_hash(u.password_hash, password)
       THEN LET u == CHOOSE u \in users : u.username = username
            IN  Goto(w, [op |-> "login", pc |-> "token", username |-> username,
                         user_id |-> u.id])
       ELSE Reply(w, make_error("login", 401))
    /\ UNCHANGED <<identityVars, storeVars>>

\* require_auth on /api/auth/me and /api/auth/logout: extract_token and the
\* SELECT of get_user_by_token.  A row past its expiry is deleted by the next
\* statement (AuthDelete).  A reply records the clock value the lookup read
\* and the row it found.
AuthSelect(w, op, token) ==
    /\ req[w] = Idle
    /\ IF token = ""
       THEN Reply(w, [op |-> op, status |-> 401, token |-> token, found |-> "none"])
       ELSE IF TokenRows(token) = {}
       THEN Reply(w, [op |-> op, status |-> 401, token |-> token, found |-> "absent"])
       ELSE LET row == CHOOSE t \in TokenRows(token) : TRUE
            IN  IF Expired(row, now)
                THEN Goto(w, [op |-> op, pc |-> "expire", token |-> token,
                              at |-> now, row |-> row])
                ELSE IF op = "me"
                THEN Reply(w, [op |-> op, status |-> 200, token |-> token,
                               found |-> "row", user_id |-> row.user_id,
                               at |-> now, row |-> row])
                ELSE Goto(w, [op |-> op, pc |-> "revoke", token |-> token])
    /\ UNCHANGED <<identityVars, storeVars>>

\* get_user_by_token: DELETE FROM tokens WHERE token = ? and commit, then None.
AuthDelete(w) ==
    /\ req[w].op \in {"me", "logout"} /\ req[w].pc = "expire"
    /\ tokens' = {t \in tokens : t.token # req[w].token}
    /\ dead' = dead \cup {req[w].token}
    /\ Reply(w, [op |-> req[w].op, status |-> 401, token |-> req[w].token,
                 found |-> "row", at |-> req[w].at, row |-> req[w].row])
    /\ UNCHANGED <<users, nextUserId, now, revoked, storeVars>>

\* A DELETE that takes every session of the token's user with it.
revoke_token_user(token) ==
    {t \in tokens : \A x \in tokens : x.token = token => x.user_id # t.user_id}

\* DELETE FROM tokens WHERE token = ?: the rows that remain.
revoke_token(token) == {t \in tokens : t.token # token}

\* logout: DELETE FROM tokens WHERE token = ? and commit.  `held` records
\* whether the statement met a row.
Logout(w) ==
    /\ req[w].op = "logout" /\ req[w].pc = "revoke"
    /\ tokens' = revoke_token(req[w].token)
    /\ revoked' = revoked \cup {req[w].token}
    /\ Reply(w, [op |-> "logout", status |-> 200, token |-> req[w].token,
                 found |-> "revoked", held |-> TokenKeyTaken(req[w].token)])
    /\ UNCHANGED <<users, nextUserId, now, dead, storeVars>>

\* Database.revoke_token is called with any token: get_conn opens the
\* connection.
RevokeCall(w, token) ==
    /\ req[w] = Idle
    /\ Goto(w, [op |-> "revoke", pc |-> "revoke", token |-> token])
    /\ UNCHANGED <<identityVars, storeVars>>

\* Database.revoke_token: the DELETE, the commit of the connection's context
\* manager, and the return of None.
RevokeToken(w) ==
    /\ req[w].op = "revoke" /\ req[w].pc = "revoke"
    /\ tokens' = revoke_token(req[w].token)
    /\ revoked' = revoked \cup {req[w].token}
    /\ Reply(w, [op |-> "revoke", status |-> 200, token |-> req[w].token,
                 held |-> TokenKeyTaken(req[w].token)])
    /\ UNCHANGED <<users, nextUserId, now, dead, storeVars>>

\* time.time() advances.
Tick ==
    /\ now < MaxTicks * TickStep
    /\ now' = now + TickStep
    /\ UNCHANGED <<users, nextUserId, tokens, dead, revoked, storeVars, req, resp>>

InitEmpty ==
    /\ users = {} /\ nextUserId = 1
    /\ tokens = {} /\ now = 0 /\ dead = {} /\ revoked = {}
    /\ items = {} /\ nextItemId = 1 /\ blobs = {} /\ created = {}
    /\ req = [w \in Workers |-> Idle]
    /\ resp = [w \in Workers |-> Idle]

\* The identity handlers, one request at a time.
NextAuth ==
    \/ \E username \in Usernames \cup {""} : RegisterCheck("w1", username, "pw", "e@x")
    \/ RegisterInsert("w1")
    \/ IssueToken("w1")
    \/ \E username \in Usernames, password \in {"pw", "bad"} :
            LoginCheck("w1", username, password)
    \/ \E op \in {"me", "logout"}, token \in TokenValues \cup {""} :
            AuthSelect("w1", op, token)
    \/ AuthDelete("w1")
    \/ Logout("w1")
    \/ Tick

SpecAuth == InitEmpty /\ [][NextAuth]_vars

\* Registrations by two workers, interleaved statement by statement.
NextRegister ==
    \/ \E w \in Workers, username \in Usernames \cup {""} :
            RegisterCheck(w, username, "pw", "e@x")
    \/ \E w \in Workers : RegisterInsert(w)
    \/ \E w \in Workers : IssueToken(w)

SpecRegister == InitEmpty /\ [][NextRegister]_vars

----------------------------------------------------------------------------
(* Claims about the identity store. *)

C4_Answered(w) == resp[w].op \in {"me", "logout"}

C4_Inv ==
    /\ \A w \in Workers : C4_Answered(w) /\ resp[w].found = "row" =>
          /\ resp[w].row.token = resp[w].token
          /\ resp[w].row.expires_at < resp[w].at => resp[w].status = 401
          /\ resp[w].row.expires_at >= resp[w].at =>
                resp[w].status = 200 /\ resp[w].user_id = resp[w].row.user_id
    /\ \A w \in Workers : C4_Answered(w) /\ resp[w].found \in {"none", "absent"} =>
          resp[w].status = 401
    /\ \A t \in dead : ~TokenKeyTaken(t) /\ get_user_by_token(t) = 0

C4_Act ==
    \A w \in Workers :
        /\ IF req[w].op \in {"me", "logout"} /\ req[w].pc = "expire" /\ req'[w] = Idle
           THEN /\ resp'[w].status = 401
                /\ \A t \in tokens' : t.token # req[w].token
                /\ req[w].token \in dead'
           ELSE TRUE
        /\ IF req[w] = Idle /\ resp'[w] # resp[w] /\ resp'[w].op = "me"
                /\ resp'[w].status = 200
           THEN tokens' = tokens
           ELSE TRUE

\* C4: a lookup of a token whose row has expires_at < now answers Unauthorized
\* (401) and deletes the row, and every later lookup of that token answers
\* Unauthorized as well (the token stays in dead, without a row, until
\* create_token draws the same value for a new session); a lookup that finds a
\* row with expires_at >= now answers with the row's user and leaves the tokens
\* table as it was.
C4_LazyExpiry == []C4_Inv /\ [][C4_Act]_vars

\* A token was found expired and deleted, and a later lookup of it was answered
\* Unauthorized.
C4_Witness ==
    \E w \in Workers : /\ resp[w].op = "me" /\ resp[w].status = 401
                        /\ resp[w].found = "absent" /\ resp[w].token \in dead

\* C7: no two users share a username, and a register that finds its username
\* held (at its SELECT or at its INSERT) fails with Conflict (409).
C7_DuplicateIsConflict ==
    /\ \A u1, u2 \in users : u1.username = u2.username => u1 = u2
    /\ \A w \in Workers :
          (resp[w].op = "register" /\ resp[w].status \notin {201, 400}
              /\ resp[w].step \in {"check", "insert"}) => resp[w].status = 409

----------------------------------------------------------------------------
(* Names.  A name is a sequence of code points, so that strip(), Path.name   *)
(* and COLLATE NOCASE are computed as the code computes them.               *)

\* str.strip(): whitespace (the space, code point 32) off both ends.
RECURSIVE Strip(_)
Strip(s) ==
    IF s = <<>> THEN s
    ELSE IF Head(s) = 32 THEN Strip(Tail(s))
    ELSE IF s[Len(s)] = 32 THEN Strip(SubSeq(s, 1, Len(s) - 1))
    ELSE s

\* Path(filename).name: the last component of a POSIX path ("/" is 47).
PathName(s) ==
    LET solid == {i \in 1..Len(s) : s[i] # 47}
    IN  IF solid = {} THEN <<>>
        ELSE LET last == CHOOSE i \in solid : \A j \in solid : j <= i
                 cuts == {i \in 1..last : s[i] = 47}
                 first == IF cuts = {} THEN 1
                          ELSE 1 + CHOOSE i \in cuts : \A j \in cuts : j <= i
             IN  SubSeq(s, first, last)

\* The name create_folder gives a folder whose name is empty.
DefaultFolderName ==
    <<1053, 1086, 1074, 1072, 1103, 32, 1087, 1072, 1087, 1082, 1072>>

\* COLLATE NOCASE folds the 26 upper case letters of ASCII and nothing else.
NoCaseChar(c) == IF c \in 65..90 THEN c + 32 ELSE c

NoCase(s) == [i \in 1..Len(s) |-> NoCaseChar(s[i])]

\* s sorts strictly before t, code point by code point, a prefix first.
SeqLess(s, t) ==
    \E k \in 1..(Len(s) + 1) :
        /\ k <= Len(t)
        /\ \A i \in 1..(k - 1) : s[i] = t[i]
        /\ k = Len(s) + 1 \/ s[k] < t[k]

\* ORDER BY CASE WHEN item_type = 'folder' THEN 0 ELSE 1 END
TypeRank(row) == IF row.item_type = "folder" THEN 0 ELSE 1

\* row r sorts strictly before row q under the ORDER BY of list_files.
OrderBefore(r, q) ==
    \/ TypeRank(r) < TypeRank(q)
    \/ TypeRank(r) = TypeRank(q) /\ SeqLess(NoCase(r.name), NoCase(q.name))

----------------------------------------------------------------------------
(* Item store. *)

\* SELECT * FROM items WHERE id = ? AND owner_id = ?
get_owner_item_any(owner_id, item_id) == {i \in items : i.id = item_id}

get_owner_item(owner_id, item_id) ==
    {i \in items : i.id = item_id /\ i.owner_id = owner_id}

\* The lookup by share code without its share_code condition.
get_public_file_by_type(share_code) ==
    {i \in items : i.item_type = "file" /\ \E u \in users : u.id = i.owner_id}

\* SELECT i.* FROM items i JOIN users u ON u.id = i.owner_id
\* WHERE i.item_type = 'file' AND i.share_code = ?
get_public_file_by_code(share_code) ==
    {i \in items : /\ i.item_type = "file" /\ i.share_code = share_code
                   /\ \E u \in users : u.id = i.owner_id}

\* parse_parent_id: <<>> is an absent parentId, <<n>> the integer n.  The
\* result is 0 for None; ok is FALSE where the code raises ValueError.
parse_parent_id(raw) ==
    IF raw = <<>> THEN [ok |-> TRUE, id |-> 0]
    ELSE IF raw[1] <= 0 THEN [ok |-> FALSE, id |-> 0]
    ELSE [ok |-> TRUE, id |-> raw[1]]

\* to_item_payload
to_item_payload(row) ==
    [id |-> row.id, name |-> row.name, type |-> row.item_type,
     parentId |-> row.parent_id, size |-> row.size,
     shareCode |-> IF row.item_type = "file" THEN row.share_code ELSE NULL,
     isPrivate |-> IF row.item_type = "file" THEN row.is_private ELSE TRUE]

\* The rows of the recursive query tree(id) of delete_item, over the rows
\* in `its`: the target if the caller owns it, then, level by level, the rows
\* of the caller whose parent_id is in the tree.
RECURSIVE TreeUp(_, _, _)
TreeUp(its, owner_id, tree) ==
    LET more == {i.parent_id : i \in {j \in its : j.id \in tree /\ j.owner_id = owner_id}}
                    \cap {j.id : j \in its}
    IN  IF more \subseteq tree THEN tree ELSE TreeUp(its, owner_id, tree \cup more)

RECURSIVE TreeDown(_, _, _)
TreeDown(its, owner_id, tree) ==
    LET more == {i.id : i \in {j \in its : j.parent_id \in tree /\ j.owner_id = owner_id}}
    IN  IF more \subseteq tree THEN tree ELSE TreeDown(its, owner_id, tree \cup more)

TreeRoot(its, owner_id, item_id) ==
    {i.id : i \in {j \in its : j.id = item_id /\ j.owner_id = owner_id}}

\* The join of the recursive step taken the wrong way round (i.id = t.parent_id).
Tree_ancestors(its, owner_id, item_id) ==
    TreeUp(its, owner_id, TreeRoot(its, owner_id, item_id))

Tree(its, owner_id, item_id) ==
    TreeDown(its, owner_id, TreeRoot(its, owner_id, item_id))

\* FOREIGN KEY (parent_id) REFERENCES items(id) ON DELETE CASCADE, with
\* PRAGMA foreign_keys = ON: the rows left once every row whose parent is gone
\* has been deleted in turn.
RECURSIVE Cascade(_)
Cascade(its) ==
    LET orphans == {i \in its : i.parent_id # 0 /\ ~\E p \in its : p.id = i.parent_id}
    IN  IF orphans = {} THEN its ELSE Cascade(its \ orphans)

\* DELETE FROM items WHERE id IN (SELECT id FROM tree): the rows that remain.
DeleteTree(its, owner_id, item_id) ==
    Cascade({i \in its : i.id \notin Tree(its, owner_id, item_id)})

\* SELECT stored_name FROM items WHERE id IN (SELECT id FROM tree)
\* AND item_type = 'file'
FileRows(its, owner_id, item_id) ==
    {i.stored_name : i \in {j \in its : /\ j.id \in Tree(its, owner_id, item_id)
                                          /\ j.item_type = "file"}}

\* CREATE UNIQUE INDEX idx_items_share_code ON items(share_code): whether
\* storing `code` in the row `item_id` (0 for a new row) breaks it.  NULLs
\* never collide.
ShareCodeClash(item_id, code) ==
    code # NULL /\ \E i \in items : i.id # item_id /\ i.share_code = code

\* The SELECT of create_share_code: some row holds the code.
CodeHeld_never(code) == FALSE

CodeHeld(code) == \E i \in items : i.share_code = code

\* What create_share_code can return for the table as it is: a code no row
\* holds, drawn at one of its attempts, or RuntimeError when every one of the
\* MAX_SHARE_CODE_ATTEMPTS draws is held by a row.
create_share_code ==
    {c \in Codes : ~CodeHeld(c)}
        \cup (IF \E c \in Codes : CodeHeld(c) THEN {"RuntimeError"} ELSE {})

\* require_auth, for a request whose token is not expired: g.current_user's id,
\* or 0 where the wrapper answers 401.
current_user(token) == IF token = "" THEN 0 ELSE get_user_by_token(token)

\* Requests that will still take an id of the items sequence.
Creating == {w \in Workers : req[w].op \in {"create_folder", "upload"}}

\* The items sequence has ids left for one more request that creates a row.
Room == nextItemId + Cardinality(Creating) <= MaxItems

\* An empty stored_name (NULL or '').
NoStoredName == <<>>

\* An INSERT that no FOREIGN KEY holds back.
ParentMissing_never(parent_id) == FALSE

\* The parent_id of the INSERT references a row that is gone: the FOREIGN KEY
\* raises sqlite3.IntegrityError.
ParentMissing(parent_id) == parent_id # 0 /\ ~\E i \in items : i.id = parent_id

\* The parent check shared by list_files, create_folder and upload_file.
OwnedFolder(user_id, parent_id) ==
    \E i \in get_owner_item(user_id, parent_id) : i.item_type = "folder"

\* create_folder up to the parent check.
CreateFolderCheck(w, token, name, raw_parent) ==
    /\ req[w] = Idle /\ Room
    /\ LET u == current_user(token)
           nm == IF Strip(name) = <<>> THEN DefaultFolderName ELSE Strip(name)
           p == parse_parent_id(raw_parent)
       IN  IF u = 0 THEN Reply(w, make_error("create_folder", 401))
           ELSE IF ~p.ok THEN Reply(w, make_error("create_folder", 400))
           ELSE IF p.id # 0 /\ ~OwnedFolder(u, p.id)
           THEN Reply(w, make_error("create_folder", 404))
           ELSE Goto(w, [op |-> "create_folder", pc |-> "insert", user |-> u,
                         name |-> nm, parent_id |-> p.id])
    /\ UNCHANGED <<identityVars, storeVars>>

\* create_folder: INSERT INTO items ... 'folder' and commit.
CreateFolderInsert(w) ==
    /\ req[w].op = "create_folder" /\ req[w].pc = "insert"
    /\ IF ParentMissing(req[w].parent_id)
       THEN /\ Reply(w, make_error("create_folder", 500))
            /\ UNCHANGED <<items, nextItemId>>
       ELSE /\ items' = items \cup
                    {[id |-> nextItemId, owner_id |-> req[w].user,
                      parent_id |-> req[w].parent_id, name |-> req[w].name,
                      item_type |-> "folder", stored_name |-> NoStoredName,
                      size |-> 0, mime |-> NULL, share_code |-> NULL,
                      is_private |-> TRUE]}
            /\ nextItemId' = nextItemId + 1
            /\ Goto(w, [op |-> "create_folder", pc |-> "reply", user |-> req[w].user,
                        item |-> nextItemId])
    /\ UNCHANGED <<identityVars, blobs, created>>

\* upload_file up to file.save: the checks, the stored name, the saved blob.
\* `rand` is the set secrets.token_hex(8) draws from; the stored name is the
\* clock value and the draw (the file names of the model have no suffix).
UploadCheck(w, token, filename, raw_parent, size, mimetype, rand) ==
    /\ req[w] = Idle /\ Room
    /\ LET u == current_user(token)
           p == parse_parent_id(raw_parent)
       IN  IF u = 0 THEN Reply(w, make_error("upload", 401)) /\ UNCHANGED blobs
           ELSE IF filename = <<>>
           THEN Reply(w, make_error("upload", 400)) /\ UNCHANGED blobs
           ELSE IF ~p.ok THEN Reply(w, make_error("upload", 400)) /\ UNCHANGED blobs
           ELSE IF p.id # 0 /\ ~OwnedFolder(u, p.id)
           THEN Reply(w, make_error("upload", 404)) /\ UNCHANGED blobs
           ELSE \E r \in rand :
                  /\ blobs' = blobs \cup {<<now, r>>}
                  /\ Goto(w, [op |-> "upload", pc |-> "code", user |-> u,
                              parent_id |-> p.id, name |-> PathName(filename),
                              stored_name |-> <<now, r>>, size |-> size,
                              attempt |-> 0,
                              mime |-> IF mimetype = ""
                                       THEN "application/octet-stream"
                                       ELSE mimetype])
    /\ UNCHANGED <<identityVars, items, nextItemId, created>>

\* One pass of the loop of create_share_code: the draw, the SELECT, and the
\* return of a code no row holds.  `attempt` counts the passes that went by.
CodeAttempt(w) ==
    /\ req[w].op \in {"upload", "share"} /\ req[w].pc = "code"
    /\ req[w].attempt < MAX_SHARE_CODE_ATTEMPTS
    /\ \E code \in Codes :
          IF CodeHeld(code)
          THEN Goto(w, [req[w] EXCEPT !.attempt = @ + 1])
          ELSE Goto(w, [req[w] EXCEPT !.pc = "write"] @@ [share_code |-> code])
    /\ UNCHANGED <<identityVars, storeVars>>

\* The range of the loop is used up: RuntimeError, which no caller catches.
CodeExhausted(w) ==
    /\ req[w].op \in {"upload", "share"} /\ req[w].pc = "code"
    /\ req[w].attempt >= MAX_SHARE_CODE_ATTEMPTS
    /\ Reply(w, [op |-> req[w].op, status |-> 500, step |-> "code",
                 attempt |-> req[w].attempt])
    /\ UNCHANGED <<identityVars, storeVars>>

\* create_share_code as one step, for the specifications that do not look
\* into its loop.
IssueCode(w) ==
    /\ req[w].op \in {"upload", "share"} /\ req[w].pc = "code"
    /\ \E c \in create_share_code :
          IF c = "RuntimeError"
          THEN Reply(w, [op |-> req[w].op, status |-> 500, step |-> "code",
                         attempt |-> MAX_SHARE_CODE_ATTEMPTS])
          ELSE Goto(w, [req[w] EXCEPT !.pc = "write"] @@ [share_code |-> c])
    /\ UNCHANGED <<identityVars, storeVars>>

\* upload_file: INSERT INTO items ... 'file' ... is_private 1, and commit.
UploadInsert(w) ==
    /\ req[w].op = "upload" /\ req[w].pc = "write"
    /\ IF ShareCodeClash(0, req[w].share_code) \/ ParentMissing(req[w].parent_id)
       THEN /\ Reply(w, [op |-> "upload", status |-> 500, step |-> "insert",
                         share_code |-> req[w].share_code])
            /\ UNCHANGED <<items, nextItemId, created>>
       ELSE /\ items' = items \cup
                    {[id |-> nextItemId, owner_id |-> req[w].user,
                      parent_id |-> req[w].parent_id, name |-> req[w].name,
                      item_type |-> "file", stored_name |-> req[w].stored_name,
                      size |-> req[w].size, mime |-> req[w].mime,
                      share_code |-> req[w].share_code, is_private |-> TRUE]}
            /\ nextItemId' = nextItemId + 1
            /\ created' = created \cup {[id |-> nextItemId, name |-> req[w].name,
                                          size |-> req[w].size, mime |-> req[w].mime,
                                          code |-> req[w].share_code]}
            /\ Goto(w, [op |-> "upload", pc |-> "reply", user |-> req[w].user,
                        item |-> nextItemId])
    /\ UNCHANGED <<identityVars, blobs>>

\* The last SELECT of create_folder, upload_file, rename_item and
\* update_privacy: get_owner_item of the row written, then the answer.
ReplyItem(w) ==
    /\ req[w].op \in {"create_folder", "upload", "rename", "privacy"}
    /\ req[w].pc = "reply"
    /\ LET rows == get_owner_item(req[w].user, req[w].item)
       IN  IF rows = {}
           THEN Reply(w, [op |-> req[w].op,
                          status |-> IF req[w].op \in {"rename", "privacy"}
                                     THEN 404 ELSE 500,
                          step |-> "reply", user |-> req[w].user, item |-> req[w].item])
           ELSE Reply(w, [op |-> req[w].op, status |-> 200, user |-> req[w].user,
                          item |-> to_item_payload(CHOOSE i \in rows : TRUE)])
    /\ UNCHANGED <<identityVars, storeVars>>

\* rename_item up to the ownership lookup.
RenameCheck(w, token, item_id, name) ==
    /\ req[w] = Idle
    /\ LET u == current_user(token)
       IN  IF u = 0 THEN Reply(w, make_error("rename", 401))
           ELSE IF Strip(name) = <<>>
           THEN Reply(w, [op |-> "rename", status |-> 400, user |-> u, item |-> item_id,
                          input |-> Strip(name)])
           ELSE IF get_owner_item(u, item_id) = {}
           THEN Reply(w, [op |-> "rename", status |-> 404, step |-> "check",
                          user |-> u, item |-> item_id, input |-> Strip(name)])
           ELSE Goto(w, [op |-> "rename", pc |-> "update", user |-> u,
                         item |-> item_id, name |-> Strip(name)])
    /\ UNCHANGED <<identityVars, storeVars>>

\* rename_item: UPDATE items SET name = ? WHERE id = ? AND owner_id = ?
RenameUpdate(w) ==
    /\ req[w].op = "rename" /\ req[w].pc = "update"
    /\ items' = {IF i.id = req[w].item /\ i.owner_id = req[w].user
                  THEN [i EXCEPT !.name = req[w].name] ELSE i : i \in items}
    /\ Goto(w, [op |-> "rename", pc |-> "reply", user |-> req[w].user,
                item |-> req[w].item])
    /\ UNCHANGED <<identityVars, nextItemId, blobs, created>>

\* update_privacy up to the type check.  is_private is <<b>> for the boolean
\* b, and <<>> where the body has no boolean isPrivate.
PrivacyCheck(w, token, item_id, is_private) ==
    /\ req[w] = Idle
    /\ LET u == current_user(token)
           rows == get_owner_item(u, item_id)
       IN  IF u = 0 THEN Reply(w, make_error("privacy", 401))
           ELSE IF is_private = <<>>
           THEN Reply(w, [op |-> "privacy", status |-> 400, user |-> u, item |-> item_id,
                          input |-> is_private])
           ELSE IF rows = {}
           THEN Reply(w, [op |-> "privacy", status |-> 404, step |-> "check",
                          user |-> u, item |-> item_id, input |-> is_private])
           ELSE IF \E i \in rows : i.item_type # "file"
           THEN Reply(w, [op |-> "privacy", status |-> 400, user |-> u, item |-> item_id,
                          input |-> is_private])
           ELSE Goto(w, [op |-> "privacy", pc |-> "update", user |-> u,
                         item |-> item_id, is_private |-> is_private[1]])
    /\ UNCHANGED <<identityVars, storeVars>>

\* An UPDATE of is_private without the id of its WHERE clause.
PrivacyUpdate_all(w) ==
    /\ req[w].op = "privacy" /\ req[w].pc = "update"
    /\ items' = {IF i.owner_id = req[w].user
                  THEN [i EXCEPT !.is_private = req[w].is_private] ELSE i : i \in items}
    /\ Goto(w, [op |-> "privacy", pc |-> "reply", user |-> req[w].user,
                item |-> req[w].item])
    /\ UNCHANGED <<identityVars, nextItemId, blobs, created>>

\* update_privacy: UPDATE items SET is_private = ? WHERE id = ? AND owner_id = ?
PrivacyUpdate(w) ==
    /\ req[w].op = "privacy" /\ req[w].pc = "update"
    /\ items' = {IF i.id = req[w].item /\ i.owner_id = req[w].user
                  THEN [i EXCEPT !.is_private = req[w].is_private] ELSE i : i \in items}
    /\ Goto(w, [op |-> "privacy", pc |-> "reply", user |-> req[w].user,
                item |-> req[w].item])
    /\ UNCHANGED <<identityVars, nextItemId, blobs, created>>

\* delete_item: the ownership lookup.
DeleteCheck(w, token, item_id) ==
    /\ req[w] = Idle
    /\ LET u == current_user(token)
       IN  IF u = 0 THEN Reply(w, make_error("delete", 401))
           ELSE IF get_owner_item(u, item_id) = {}
           THEN Reply(w, [op |-> "delete", status |-> 404, user |-> u, item |-> item_id])
           ELSE Goto(w, [op |-> "delete", pc |-> "collect", user |-> u,
                         item |-> item_id])
    /\ UNCHANGED <<identityVars, storeVars>>

\* delete_item: the SELECT of the stored names of the files of the tree.
DeleteCollect(w) ==
    /\ req[w].op = "delete" /\ req[w].pc = "collect"
    /\ Goto(w, [op |-> "delete", pc |-> "delete", user |-> req[w].user,
                item |-> req[w].item,
                file_rows |-> FileRows(items, req[w].user, req[w].item)])
    /\ UNCHANGED <<identityVars, storeVars>>

\* delete_item: the recursive DELETE and commit.  `removed` records the ids of
\* the rows the statement deleted.
DeleteRows(w) ==
    /\ req[w].op = "delete" /\ req[w].pc = "delete"
    /\ items' = DeleteTree(items, req[w].user, req[w].item)
    /\ Goto(w, [op |-> "delete", pc |-> "unlink", user |-> req[w].user,
                item |-> req[w].item, file_rows |-> req[w].file_rows,
                removed |-> {i.id : i \in items \ items'}])
    /\ created' = {c \in created : \E i \in items' : i.id = c.id}
    /\ UNCHANGED <<identityVars, nextItemId, blobs>>

\* delete_item: the loop that unlinks the collected stored names, and the
\* answer.
DeleteUnlink(w) ==
    /\ req[w].op = "delete" /\ req[w].pc = "unlink"
    /\ blobs' = blobs \ {n \in req[w].file_rows : n # NoStoredName}
    /\ Reply(w, [op |-> "delete", status |-> 200, user |-> req[w].user,
                 item |-> req[w].item, removed |-> req[w].removed])
    /\ UNCHANGED <<identityVars, items, nextItemId, created>>

\* get_share_link up to the answer for a file that has a code.
ShareCheck(w, token, item_id) ==
    /\ req[w] = Idle
    /\ LET u == current_user(token)
           rows == get_owner_item(u, item_id)
       IN  IF u = 0 THEN Reply(w, make_error("share", 401))
           ELSE IF rows = {}
           THEN Reply(w, [op |-> "share", status |-> 404, user |-> u, item |-> item_id])
           ELSE LET row == CHOOSE i \in rows : TRUE
                IN  IF row.item_type # "file"
                    THEN Reply(w, [op |-> "share", status |-> 400, user |-> u,
                                   item |-> item_id])
                    ELSE IF row.share_code \notin {NULL, ""}
                    THEN Reply(w, [op |-> "share", status |-> 200, user |-> u,
                                   item |-> item_id, shareCode |-> row.share_code,
                                   isPrivate |-> row.is_private])
                    ELSE Goto(w, [op |-> "share", pc |-> "code", user |-> u,
                                  item |-> item_id, is_private |-> row.is_private,
                                  attempt |-> 0])
    /\ UNCHANGED <<identityVars, storeVars>>

\* get_share_link: UPDATE items SET share_code = ? WHERE id = ? AND
\* owner_id = ?, commit, and the answer.
ShareUpdate(w) ==
    /\ req[w].op = "share" /\ req[w].pc = "write"
    /\ IF /\ get_owner_item(req[w].user, req[w].item) # {}
          /\ ShareCodeClash(req[w].item, req[w].share_code)
       THEN /\ Reply(w, [op |-> "share", status |-> 500, step |-> "update"])
            /\ UNCHANGED items
       ELSE /\ items' = {IF i.id = req[w].item /\ i.owner_id = req[w].user
                         THEN [i EXCEPT !.share_code = req[w].share_code]
                         ELSE i : i \in items}
            /\ Reply(w, [op |-> "share", status |-> 200, user |-> req[w].user,
                         item |-> req[w].item, shareCode |-> req[w].share_code,
                         isPrivate |-> req[w].is_private])
    /\ UNCHANGED <<identityVars, nextItemId, blobs, created>>

\* The orders in which a SELECT ... ORDER BY can return `rows`: every
\* arrangement in which no row comes after a row it sorts strictly before.
\* The order of rows whose sort keys are equal is not defined by SQLite.
Orders(rows) ==
    LET n == Cardinality(rows)
    IN  {s \in [1..n -> rows] :
            /\ \A i, j \in 1..n : i # j => s[i] # s[j]
            /\ \A i, j \in 1..n : i < j => ~OrderBefore(s[j], s[i])}

\* SELECT * FROM items WHERE owner_id = ? AND parent_id = ? (or IS NULL)
Children(user_id, parent_id) ==
    {i \in items : i.owner_id = user_id /\ i.parent_id = parent_id}

\* list_files.
ListFiles(w, token, raw_parent) ==
    /\ req[w] = Idle
    /\ LET u == current_user(token)
           p == parse_parent_id(raw_parent)
       IN  IF u = 0 THEN Reply(w, make_error("list", 401))
           ELSE IF ~p.ok THEN Reply(w, make_error("list", 400))
           ELSE IF p.id # 0 /\ ~OwnedFolder(u, p.id)
           THEN Reply(w, [op |-> "list", status |-> 404, user |-> u, parent |-> p.id])
           ELSE \E s \in Orders(Children(u, p.id)) :
                  Reply(w, [op |-> "list", status |-> 200, user |-> u,
                            parent |-> p.id,
                            items |-> [k \in DOMAIN s |-> to_item_payload(s[k])]])
    /\ UNCHANGED <<identityVars, storeVars>>

\* The privacy gate of get_public_file and download_public_file.
IsPrivate(row) == row.is_private

\* get_public_file.  `caller` is the token the request carries ("" for none):
\* the route has no require_auth and never reads it.
GetPublicFile(w, caller, share_code) ==
    /\ req[w] = Idle
    /\ LET rows == get_public_file_by_code(share_code)
       IN  IF rows = {}
           THEN Reply(w, [op |-> "public", status |-> 404, caller |-> caller,
                          code |-> share_code, error |-> "File not found"])
           ELSE LET row == CHOOSE i \in rows : TRUE
                IN  IF IsPrivate(row)
                    THEN Reply(w, [op |-> "public", status |-> 403, caller |-> caller,
                                   code |-> share_code, error |-> "This file is private"])
                    ELSE Reply(w, [op |-> "public", status |-> 200, caller |-> caller,
                                   code |-> share_code,
                                   file |-> [id |-> row.id, name |-> row.name,
                                             size |-> row.size,
                                             mime |-> IF row.mime \in {NULL, ""}
                                                      THEN "application/octet-stream"
                                                      ELSE row.mime,
                                             shareCode |-> row.share_code]])
    /\ UNCHANGED <<identityVars, storeVars>>

\* download_public_file.
DownloadPublicFile(w, caller, share_code) ==
    /\ req[w] = Idle
    /\ LET rows == get_public_file_by_code(share_code)
       IN  IF rows = {}
           THEN Reply(w, [op |-> "download", status |-> 404, caller |-> caller,
                          code |-> share_code, error |-> "File not found"])
           ELSE LET row == CHOOSE i \in rows : TRUE
                IN  IF IsPrivate(row)
                    THEN Reply(w, [op |-> "download", status |-> 403, caller |-> caller,
                                   code |-> share_code, error |-> "This file is private"])
                    ELSE IF row.stored_name = NoStoredName
                    THEN Reply(w, [op |-> "download", status |-> 500, caller |-> caller,
                                   code |-> share_code, error |-> "File storage error"])
                    ELSE IF row.stored_name \notin blobs
                    THEN Reply(w, [op |-> "download", status |-> 404, caller |-> caller,
                                   code |-> share_code,
                                   error |-> "File not found on disk"])
                    ELSE Reply(w, [op |-> "download", status |-> 200, caller |-> caller,
                                   code |-> share_code,
                                   file |-> [id |-> row.id, name |-> row.name,
                                             mime |-> IF row.mime \in {NULL, ""}
                                                      THEN "application/octet-stream"
                                                      ELSE row.mime,
                                             blob |-> row.stored_name]])
    /\ UNCHANGED <<identityVars, storeVars>>

----------------------------------------------------------------------------
(* Specifications of the item store.  Two users are registered and logged   *)
(* in; the clock stands still, so no token expires while they work.         *)

InitStore ==
    /\ users = {[id |-> 1, username |-> "alice",
                 password_hash |-> generate_password_hash("pw")],
                [id |-> 2, username |-> "bob",
                 password_hash |-> generate_password_hash("pw")]}
    /\ nextUserId = 3
    /\ now = 0
    /\ tokens = {[token |-> "t1", user_id |-> 1, expires_at |-> TOKEN_TTL_SECONDS],
                 [token |-> "t2", user_id |-> 2, expires_at |-> TOKEN_TTL_SECONDS]}
    /\ dead = {} /\ revoked = {}
    /\ items = {} /\ nextItemId = 1 /\ blobs = {} /\ created = {}
    /\ req = [w \in Workers |-> Idle]
    /\ resp = [w \in Workers |-> Idle]

\* parentId values of a request: absent, zero, and every id.
RawParents == {<<>>} \cup {<<n>> : n \in 0..MaxItems}

ItemIds == 1..MaxItems

\* "a": every folder and file of the tree carries the same name.
TreeNames == {<<97>>}

\* "a", "A" and "B".
ListNames == {<<97>>, <<65>>, <<66>>}

\* The folder tree: folders and files are created and deleted, one request at
\* a time.
NextTree ==
    \/ \E token \in TokenValues, name \in TreeNames, raw \in RawParents :
            CreateFolderCheck("w1", token, name, raw)
    \/ CreateFolderInsert("w1")
    \/ \E token \in TokenValues, name \in TreeNames, raw \in RawParents :
            UploadCheck("w1", token, name, raw, 1, "", {"r1"})
    \/ IssueCode("w1")
    \/ UploadInsert("w1")
    \/ ReplyItem("w1")
    \/ \E token \in TokenValues, id \in ItemIds : DeleteCheck("w1", token, id)
    \/ DeleteCollect("w1")
    \/ DeleteRows("w1")
    \/ DeleteUnlink("w1")

SpecTree == InitStore /\ [][NextTree]_vars

\* Listings: folders and files are created at the root and in the first
\* folder, and listed, one request at a time.
NextList ==
    \/ \E token \in TokenValues, name \in ListNames :
            CreateFolderCheck("w1", token, name, <<>>)
    \/ CreateFolderInsert("w1")
    \/ \E token \in TokenValues, name \in ListNames, raw \in {<<>>, <<1>>} :
            UploadCheck("w1", token, name, raw, 1, "", {"r1"})
    \/ IssueCode("w1")
    \/ UploadInsert("w1")
    \/ ReplyItem("w1")
    \/ \E token \in TokenValues, raw \in {<<>>, <<1>>} : ListFiles("w1", token, raw)

SpecList == InitStore /\ [][NextList]_vars

----------------------------------------------------------------------------
(* Claims about the folder tree. *)

\* The ids of `ids` and of every row below them, whoever owns it.
RECURSIVE Closure(_, _)
Closure(its, ids) ==
    LET more == {i.id : i \in {j \in its : j.parent_id \in ids}}
    IN  IF more \subseteq ids THEN ids ELSE Closure(its, ids \cup more)

C1_Act ==
    \A w \in Workers :
        IF /\ req[w].op = "delete" /\ req[w].pc = "delete" /\ req'[w] # req[w]
           /\ get_owner_item(req[w].user, req[w].item) # {}
        THEN /\ items' = {i \in items : i.id \notin Closure(items, {req[w].item})}
             /\ req'[w].removed = Closure(items, {req[w].item})
        ELSE TRUE

\* C1: the DELETE of a delete_item whose target the caller owns removes the
\* target and every row below it, at any depth, and leaves every other row
\* (of any user, whatever its name) in the table as it was; the request is
\* answered 200.
C1_DeleteSubtreeExact ==
    /\ [][C1_Act]_vars
    /\ [](\A w \in Workers : resp[w].op = "delete" /\ resp[w].status = 200 =>
              \A i \in items : i.id \notin resp[w].removed)

\* A delete removed a target with rows two levels below it while another
\* user's item of the same name stayed.
C1_Witness ==
    \E w \in Workers :
        /\ resp[w].op = "delete" /\ resp[w].status = 200
        /\ Cardinality(resp[w].removed) >= 3
        /\ \E i \in items : i.owner_id # resp[w].user /\ i.name = <<97>>

----------------------------------------------------------------------------
(* Specifications of files. *)

\* The items table has room for one more row of a specification of files.
FilesRoom == nextItemId <= MaxFiles

FileIds == 1..MaxFiles

\* File names of uploads: "a" and "d/b".
FileNames == {<<97>>, <<100, 47, 98>>}

\* New names of a rename: "b" and " ".
NewNames == {<<98>>, <<32>>}

\* isPrivate of a request body: true, false, and absent.
PrivacyInputs == {<<TRUE>>, <<FALSE>>, <<>>}

\* Owners rename and reprivatize, and so do users who are not the owner.
NextOwner ==
    \/ \E token \in TokenValues \cup {""} :
            FilesRoom /\ CreateFolderCheck("w1", token, <<>>, <<>>)
    \/ CreateFolderInsert("w1")
    \/ \E token \in TokenValues :
            FilesRoom /\ UploadCheck("w1", token, <<97>>, <<>>, 1, "", {"r1"})
    \/ IssueCode("w1")
    \/ UploadInsert("w1")
    \/ \E token \in TokenValues \cup {""}, id \in FileIds, name \in NewNames :
            RenameCheck("w1", token, id, name)
    \/ RenameUpdate("w1")
    \/ \E token \in TokenValues \cup {""}, id \in FileIds, b \in PrivacyInputs :
            PrivacyCheck("w1", token, id, b)
    \/ PrivacyUpdate("w1")
    \/ ReplyItem("w1")

SpecOwner == InitStore /\ [][NextOwner]_vars

\* Files are uploaded, made public or private, deleted, and resolved by share
\* code, one request at a time.  Two uploads of the same second can draw the
\* same stored name.
NextPublic ==
    \/ \E token \in TokenValues :
            FilesRoom /\ UploadCheck("w1", token, <<97>>, <<>>, 1, "", Rand)
    \/ IssueCode("w1")
    \/ UploadInsert("w1")
    \/ \E token \in TokenValues, id \in FileIds, b \in {<<TRUE>>, <<FALSE>>} :
            PrivacyCheck("w1", token, id, b)
    \/ PrivacyUpdate("w1")
    \/ ReplyItem("w1")
    \/ \E token \in TokenValues, id \in FileIds : DeleteCheck("w1", token, id)
    \/ DeleteCollect("w1")
    \/ DeleteRows("w1")
    \/ DeleteUnlink("w1")
    \/ \E caller \in TokenValues \cup {""}, code \in Codes :
            GetPublicFile("w1", caller, code)
    \/ \E caller \in TokenValues \cup {""}, code \in Codes :
            DownloadPublicFile("w1", caller, code)

SpecPublic == InitStore /\ [][NextPublic]_vars

\* Sizes and MIME types of uploads; "" is a part without a Content-Type.
Sizes == {1, 2}

MimeTypes == {"", "text/plain"}

\* The round trip: files are uploaded, their share links read, their privacy
\* set, and their share codes resolved.
NextRoundTrip ==
    \/ \E token \in TokenValues, name \in FileNames, size \in Sizes, mime \in MimeTypes :
            FilesRoom /\ UploadCheck("w1", token, name, <<>>, size, mime, {"r1"})
    \/ IssueCode("w1")
    \/ UploadInsert("w1")
    \/ \E token \in TokenValues, id \in FileIds : ShareCheck("w1", token, id)
    \/ \E token \in TokenValues, id \in FileIds, b \in {<<TRUE>>, <<FALSE>>} :
            PrivacyCheck("w1", token, id, b)
    \/ PrivacyUpdate("w1")
    \/ ReplyItem("w1")
    \/ \E code \in Codes : GetPublicFile("w1", "", code)

SpecRoundTrip == InitStore /\ [][NextRoundTrip]_vars

\* Two requests of one user in flight at once: uploads to the root and
\* deletes.
NextRace ==
    \E w \in Workers :
        \/ FilesRoom /\ UploadCheck(w, "t1", <<97>>, <<>>, 1, "", {"r1"})
        \/ IssueCode(w)
        \/ UploadInsert(w)
        \/ ReplyItem(w)
        \/ \E id \in FileIds : DeleteCheck(w, "t1", id)
        \/ DeleteCollect(w)
        \/ DeleteRows(w)
        \/ DeleteUnlink(w)

SpecRace == InitStore /\ [][NextRace]_vars

\* A file of alice that holds `code`, as upload_file stores it.
HeldFile(id, code) ==
    [id |-> id, owner_id |-> 1, parent_id |-> 0, name |-> <<97>>,
     item_type |-> "file", stored_name |-> <<0, code>>, size |-> 1,
     mime |-> "application/octet-stream", share_code |-> code, is_private |-> TRUE]

\* The store after alice uploaded files that hold the codes of `held`.
InitCode ==
    \E held \in SUBSET Codes :
        LET n == Cardinality(held)
            id == IF "c1" \in held THEN [c \in held |-> IF c = "c1" THEN 1 ELSE 2]
                  ELSE [c \in held |-> 1]
        IN  /\ users = {[id |-> 1, username |-> "alice",
                         password_hash |-> generate_password_hash("pw")],
                        [id |-> 2, username |-> "bob",
                         password_hash |-> generate_password_hash("pw")]}
            /\ nextUserId = 3
            /\ now = 0
            /\ tokens = {[token |-> "t1", user_id |-> 1, expires_at |-> TOKEN_TTL_SECONDS],
                         [token |-> "t2", user_id |-> 2, expires_at |-> TOKEN_TTL_SECONDS]}
            /\ dead = {} /\ revoked = {}
            /\ items = {HeldFile(id[c], c) : c \in held}
            /\ nextItemId = n + 1
            /\ blobs = {<<0, c>> : c \in held}
            /\ created = {[id |-> id[c], name |-> <<97>>, size |-> 1,
                            mime |-> "application/octet-stream", code |-> c] : c \in held}
            /\ req = [w \in Workers |-> Idle]
            /\ resp = [w \in Workers |-> Idle]

\* Uploads with the loop of create_share_code taken pass by pass.
NextCode ==
    \/ \E token \in TokenValues, name \in FileNames :
            UploadCheck("w1", token, name, <<>>, 1, "", {"r1"})
    \/ CodeAttempt("w1")
    \/ CodeExhausted("w1")
    \/ UploadInsert("w1")
    \/ ReplyItem("w1")

SpecCode == InitCode /\ [][NextCode]_vars

\* Sessions of two users: logins and lookups by one worker, logouts and
\* revocations by two workers, interleaved statement by statement, while the
\* clock moves.
NextRevoke ==
    \/ \E username \in Usernames : LoginCheck("w1", username, "pw")
    \/ IssueToken("w1")
    \/ \E token \in TokenValues : AuthSelect("w1", "me", token)
    \/ \E w \in Workers, token \in TokenValues : AuthSelect(w, "logout", token)
    \/ \E w \in Workers : AuthDelete(w)
    \/ \E w \in Workers : Logout(w)
    \/ \E w \in Workers, token \in TokenValues : RevokeCall(w, token)
    \/ \E w \in Workers : RevokeToken(w)
    \/ Tick

SpecRevoke == InitStore /\ [][NextRevoke]_vars

\* Parents of a request in the specifications of files: absent, and every id.
FileParents == {<<>>} \cup {<<n>> : n \in FileIds}

\* Two users and two requests in flight at once, interleaved statement by
\* statement: both users create folders at any place of the tree, through
\* either worker, and delete; alice uploads files, renames and makes public.
NextNest ==
    \/ \E w \in Workers, token \in TokenValues, raw \in FileParents :
            FilesRoom /\ CreateFolderCheck(w, token, <<97>>, raw)
    \/ \E w \in Workers : CreateFolderInsert(w)
    \/ \E raw \in FileParents :
            FilesRoom /\ UploadCheck("w1", "t1", <<97>>, raw, 1, "", {"r1"})
    \/ IssueCode("w1")
    \/ UploadInsert("w1")
    \/ \E id \in FileIds : RenameCheck("w1", "t1", id, <<98>>)
    \/ RenameUpdate("w1")
    \/ \E id \in FileIds : PrivacyCheck("w1", "t1", id, <<FALSE>>)
    \/ PrivacyUpdate("w1")
    \/ \E w \in Workers : ReplyItem(w)
    \/ \E token \in TokenValues, id \in FileIds : DeleteCheck("w2", token, id)
    \/ DeleteCollect("w2")
    \/ DeleteRows("w2")
    \/ DeleteUnlink("w2")

SpecNest == InitStore /\ [][NextNest]_vars

\* Every handler that touches a session or an item, one request at a time, by
\* two users: owners and users who are not the owner.
NextFrame ==
    \/ LoginCheck("w1", "alice", "pw")
    \/ IssueToken("w1")
    \/ \E op \in {"me", "logout"} : AuthSelect("w1", op, "t1")
    \/ Logout("w1")
    \/ \E token \in TokenValues :
            FilesRoom /\ CreateFolderCheck("w1", token, <<97>>, <<>>)
    \/ CreateFolderInsert("w1")
    \/ \E token \in TokenValues :
            FilesRoom /\ UploadCheck("w1", token, <<97>>, <<>>, 1, "", {"r1"})
    \/ IssueCode("w1")
    \/ UploadInsert("w1")
    \/ \E token \in TokenValues, id \in FileIds : RenameCheck("w1", token, id, <<98>>)
    \/ RenameUpdate("w1")
    \/ \E token \in TokenValues, id \in FileIds, b \in {<<TRUE>>, <<FALSE>>} :
            PrivacyCheck("w1", token, id, b)
    \/ PrivacyUpdate("w1")
    \/ ReplyItem("w1")
    \/ \E token \in TokenValues, id \in FileIds : ShareCheck("w1", token, id)
    \/ \E token \in TokenValues : ListFiles("w1", token, <<>>)
    \/ \E token \in TokenValues, id \in FileIds : DeleteCheck("w1", token, id)
    \/ DeleteCollect("w1")
    \/ DeleteRows("w1")
    \/ DeleteUnlink("w1")
    \/ \E code \in Codes : GetPublicFile("w1", "", code)
    \/ \E code \in Codes : DownloadPublicFile("w1", "", code)

SpecFrame == InitStore /\ [][NextFrame]_vars

\* Registrations and uploads, one request at a time, from the empty
\* database: the requests that write in more than one step.
NextFail ==
    \/ \E username \in Usernames \cup {""} : RegisterCheck("w1", username, "pw", "e@x")
    \/ RegisterInsert("w1")
    \/ IssueToken("w1")
    \/ \E token \in TokenValues \cup {""}, name \in {<<97>>, <<>>} :
            UploadCheck("w1", token, name, <<>>, 1, "", Rand)
    \/ IssueCode("w1")
    \/ UploadInsert("w1")
    \/ ReplyItem("w1")

SpecFail == InitEmpty /\ [][NextFail]_vars

\* A file of alice from before share codes were issued: its share_code is
\* NULL, and no migrate_schema has run over it.
LegacyFile ==
    [id |-> 1, owner_id |-> 1, parent_id |-> 0, name |-> <<97>>,
     item_type |-> "file", stored_name |-> <<0, "r1">>, size |-> 1,
     mime |-> "application/octet-stream", share_code |-> NULL, is_private |-> TRUE]

\* The store with the legacy file in it.
InitLegacy ==
    /\ users = {[id |-> 1, username |-> "alice",
                 password_hash |-> generate_password_hash("pw")],
                [id |-> 2, username |-> "bob",
                 password_hash |-> generate_password_hash("pw")]}
    /\ nextUserId = 3
    /\ now = 0
    /\ tokens = {[token |-> "t1", user_id |-> 1, expires_at |-> TOKEN_TTL_SECONDS],
                 [token |-> "t2", user_id |-> 2, expires_at |-> TOKEN_TTL_SECONDS]}
    /\ dead = {} /\ revoked = {}
    /\ items = {LegacyFile} /\ nextItemId = 2
    /\ blobs = {LegacyFile.stored_name}
    /\ created = {}
    /\ req = [w \in Workers |-> Idle]
    /\ resp = [w \in Workers |-> Idle]

\* Share links are asked for by two requests in flight at once, interleaved
\* statement by statement, while files are uploaded.
NextShare ==
    \/ \E w \in Workers, token \in TokenValues, id \in FileIds : ShareCheck(w, token, id)
    \/ \E w \in Workers : IssueCode(w)
    \/ \E w \in Workers : ShareUpdate(w)
    \/ FilesRoom /\ UploadCheck("w1", "t1", <<97>>, <<>>, 1, "", {"r2"})
    \/ UploadInsert("w1")
    \/ ReplyItem("w1")

SpecShare == InitLegacy /\ [][NextShare]_vars

\* Uploads and deletes of two users by two requests in flight at once,
\* interleaved statement by statement, under folders one worker creates.
NextBlob ==
    \/ FilesRoom /\ CreateFolderCheck("w1", "t1", <<97>>, <<>>)
    \/ CreateFolderInsert("w1")
    \/ \E w \in Workers, token \in TokenValues, raw \in FileParents :
            FilesRoom /\ UploadCheck(w, token, <<97>>, raw, 1, "", Rand)
    \/ \E w \in Workers : IssueCode(w)
    \/ \E w \in Workers : UploadInsert(w)
    \/ \E w \in Workers : ReplyItem(w)
    \/ \E w \in Workers, token \in TokenValues, id \in FileIds :
            DeleteCheck(w, token, id)
    \/ \E w \in Workers : DeleteCollect(w)
    \/ \E w \in Workers : DeleteRows(w)
    \/ \E w \in Workers : DeleteUnlink(w)

SpecBlob == InitStore /\ [][NextBlob]_vars

----------------------------------------------------------------------------
(* Claims about share codes. *)

\* C2: of the uploads in flight at once, each one's issuance succeeds (no
\* INSERT of an upload is refused), and no two rows hold the same share code.
C2_AllIssuancesSucceed ==
    /\ \A w \in Workers :
          ~(resp[w].op = "upload" /\ resp[w].status = 500 /\ resp[w].step = "insert")
    /\ \A i, j \in items :
          (i.id # j.id /\ i.share_code # NULL) => i.share_code # j.share_code

\* The rows that hold `code`, read off the table.
Holders(its, code) == {i \in its : i.share_code = code}

C10_Act ==
    \A w \in Workers :
        IF req[w] # Idle /\ req[w].pc = "code" /\ req'[w] # req[w]
        THEN \/ /\ req'[w] # Idle /\ req'[w].pc = "write"
                /\ Holders(items, req'[w].share_code) = {}
                /\ req'[w].attempt = req[w].attempt
                /\ req[w].attempt < MAX_SHARE_CODE_ATTEMPTS
             \/ /\ req'[w] # Idle /\ req'[w].pc = "code"
                /\ req'[w].attempt = req[w].attempt + 1
                /\ req'[w].attempt <= MAX_SHARE_CODE_ATTEMPTS
                /\ \E code \in Codes : Holders(items, code) # {}
             \/ /\ req'[w] = Idle
                /\ resp'[w].status = 500 /\ resp'[w].step = "code"
                /\ req[w].attempt = MAX_SHARE_CODE_ATTEMPTS
                /\ items' = items
        ELSE TRUE

\* C10: create_share_code makes at most MAX_SHARE_CODE_ATTEMPTS (50) passes:
\* a pass whose code no row holds returns that code, a pass whose code is held
\* leads to the next pass, and after the 50th held code the request is
\* answered with the failure (500) and nothing is stored; a held code is never
\* returned and the count of passes never exceeds the bound.
C10_BoundedAttempts ==
    /\ [][C10_Act]_vars
    /\ [](\A w \in Workers :
            /\ (req[w] # Idle /\ req[w].op = "upload" /\ req[w].pc \in {"code", "write"})
                    => req[w].attempt <= MAX_SHARE_CODE_ATTEMPTS
            /\ (req[w] # Idle /\ req[w].op = "upload" /\ req[w].pc = "write")
                    => /\ req[w].attempt < MAX_SHARE_CODE_ATTEMPTS
                       /\ Holders(items, req[w].share_code) = {})

\* Every pass of the loop met a held code and the caller got the failure.
C10_Witness ==
    \E w \in Workers :
        /\ resp[w].op = "upload" /\ resp[w].status = 500 /\ resp[w].step = "code"
        /\ resp[w].attempt = MAX_SHARE_CODE_ATTEMPTS

----------------------------------------------------------------------------
(* Claims about files. *)

\* What a resolution of `code` has to answer for the table `its`.
Resolves(its, code, r) ==
    LET holders == {i \in its : i.item_type = "file" /\ i.share_code = code}
    IN  /\ holders = {} => r.status = 404
        /\ \A i \in holders :
              /\ i.is_private => r.status = 403
              /\ ~i.is_private => r.status = 200 /\ r.file.id = i.id

C3_Act ==
    \A w \in Workers :
        IF req[w] = Idle /\ req'[w] = Idle /\ resp'[w] # resp[w]
           /\ resp'[w].op \in {"public", "download"}
        THEN Resolves(items, resp'[w].code, resp'[w])
        ELSE TRUE

\* C3: get_public_file and download_public_file answer 403 when the file that
\* holds the code is private, answer with that file (200) when it is public,
\* and answer 404 when no file holds the code, whatever token the request
\* carries.
C3_ResolvePublic == [][C3_Act]_vars

\* `user_id` owns the row `item_id`, read off the table.
Owns(user_id, item_id) == \E i \in items : i.id = item_id /\ i.owner_id = user_id

\* Worker w answers a rename or a privacy change of a user who does not own
\* the item.
C6_Refusal(w) ==
    /\ req[w] = Idle /\ req'[w] = Idle /\ resp'[w] # resp[w]
    /\ resp'[w].op \in {"rename", "privacy"}
    /\ resp'[w].status # 401
    /\ ~Owns(resp'[w].user, resp'[w].item)

\* No rename or privacy change of an item the user does not own gets past the
\* ownership lookup.
C6_NoEntry ==
    \A w \in Workers :
        IF req[w] = Idle /\ req'[w] # Idle /\ req'[w].op \in {"rename", "privacy"}
        THEN Owns(req'[w].user, req'[w].item)
        ELSE TRUE

C6_Act ==
    /\ C6_NoEntry
    /\ \A w \in Workers :
          IF C6_Refusal(w)
          THEN /\ resp'[w].status # 403
               /\ items' = items
               /\ resp'[w].input # <<>> => resp'[w].status = 404
               /\ resp'[w].input = <<>> => resp'[w].status = 400
          ELSE TRUE

\* C6 (amended): rename_item with a new name that is not blank, and
\* update_privacy with a boolean isPrivate, on an item the user does not own
\* (another user's, or absent) answer 404; with a blank new name, or without a
\* boolean isPrivate, they answer 400; they never answer 403, and the items
\* table is left as it was.
C6_NotOwnedIsNotFound == [][C6_Act]_vars

\* A user was refused the rename of another user's file, and the file has the
\* name it was uploaded with.
C6_Witness ==
    /\ resp["w1"].op = "rename" /\ resp["w1"].status = 404
    /\ resp["w1"].input = <<98>>
    /\ \E i \in items : /\ i.id = resp["w1"].item /\ i.owner_id # resp["w1"].user
                          /\ i.name = <<97>>

C6_ActOriginal ==
    /\ C6_NoEntry
    /\ \A w \in Workers :
          IF C6_Refusal(w) /\ (resp'[w].op = "privacy" => resp'[w].input # <<>>)
          THEN /\ resp'[w].status = 404
               /\ items' = items
          ELSE TRUE

\* C6 as stated: every rename and every privacy change (with a boolean
\* isPrivate) on an item the user does not own answers 404 and leaves the
\* items table as it was.
C6_Original == [][C6_ActOriginal]_vars

C9_Act ==
    \A w \in Workers :
        IF req[w] = Idle /\ req'[w] = Idle /\ resp'[w] # resp[w]
           /\ resp'[w].op = "public"
        THEN \A c \in created :
                (/\ c.code = resp'[w].code
                 /\ \E i \in items : i.id = c.id /\ ~i.is_private)
                    => /\ resp'[w].status = 200
                       /\ resp'[w].file.id = c.id
                       /\ resp'[w].file.name = c.name
                       /\ resp'[w].file.size = c.size
                       /\ resp'[w].file.mime = c.mime
                       /\ resp'[w].file.shareCode = c.code
        ELSE TRUE

\* C9: get_share_link answers the owner of a file with the share code the
\* file was created with, and once update_privacy has made the file public,
\* get_public_file with that code answers 200 with that file: its id, and the
\* name, size and MIME type its INSERT was given.
C9_RoundTrip ==
    /\ [][C9_Act]_vars
    /\ [](\A w \in Workers :
            (resp[w].op = "share" /\ resp[w].status = 200) =>
                \E c \in created : c.id = resp[w].item /\ c.code = resp[w].shareCode)

\* The file uploaded as "d/b" with 2 bytes of text/plain was resolved by its
\* share code, while another file exists.
C9_Witness ==
    /\ resp["w1"].op = "public" /\ resp["w1"].status = 200
    /\ resp["w1"].file.name = <<98>> /\ resp["w1"].file.size = 2
    /\ resp["w1"].file.mime = "text/plain"
    /\ Cardinality(items) = 2

----------------------------------------------------------------------------
(* Claims about requests in flight at once. *)

\* C5: of two delete_item requests of the owner for the same item that are in
\* flight at once, one is answered 200 and the other 404: no item is ever
\* reported deleted by both workers.
C5_OneDeleteSucceeds ==
    ~(/\ resp["w1"].op = "delete" /\ resp["w1"].status = 200
      /\ resp["w2"].op = "delete" /\ resp["w2"].status = 200
      /\ resp["w1"].item = resp["w2"].item)

----------------------------------------------------------------------------
(* Claims about listings. *)

C8_Act ==
    \A w \in Workers :
        IF req[w] = Idle /\ req'[w] = Idle /\ resp'[w] # resp[w]
           /\ resp'[w].op = "list" /\ resp'[w].status = 200
        THEN LET rows == {i \in items : /\ i.owner_id = resp'[w].user
                                         /\ i.parent_id = resp'[w].parent}
                 n == Cardinality(rows)
                 out == resp'[w].items
             IN  /\ {out[k].id : k \in DOMAIN out} = {i.id : i \in rows}
                 /\ Len(out) = n
                 /\ \A k \in 1..(n - 1) :
                       \/ out[k].type = "folder" /\ out[k + 1].type = "file"
                       \/ /\ out[k].type = out[k + 1].type
                          /\ ~SeqLess(NoCase(out[k + 1].name), NoCase(out[k].name))
                 /\ \A s \in Orders(rows) :
                       [k \in DOMAIN s |-> to_item_payload(s[k])] = out
        ELSE TRUE

\* C8: list_files answers with exactly the rows of the user under the parent,
\* folders before files, each group in ascending order of the name without
\* regard to case, and the answer is the only order the query can return for
\* the rows of the table.
C8_ListingDeterministic == [][C8_Act]_vars

----------------------------------------------------------------------------
(* Claims about revocation. *)

\* Worker w runs the DELETE of logout or of Database.revoke_token.
C11_Deletes(w) ==
    /\ req[w].op \in {"logout", "revoke"} /\ req[w].pc = "revoke"
    /\ req'[w] = Idle

\* Worker w answers a logout request without reaching the DELETE.
C11_Refuses(w) ==
    /\ req[w] = Idle /\ req'[w] = Idle /\ resp'[w] # resp[w]
    /\ resp'[w].op = "logout"

C11_Act ==
    \A w \in Workers :
        /\ IF C11_Deletes(w)
           THEN /\ resp'[w].status = 200
                /\ tokens' = {t \in tokens : t.token # req[w].token}
                /\ (\A t \in tokens : t.token # req[w].token) => tokens' = tokens
                /\ users' = users
                /\ \A t \in tokens :
                      (t.token # req[w].token /\ t.expires_at >= now)
                          => t \in tokens' /\ \E u \in users' : u.id = t.user_id
           ELSE TRUE
        /\ IF C11_Refuses(w)
           THEN /\ resp'[w].status = 401
                /\ tokens' = tokens
                /\ \A t \in tokens : t.token # resp'[w].token
           ELSE TRUE

\* C11 (amended): the DELETE of a revocation (Database.revoke_token, and
\* logout once require_auth let the request through) succeeds whether or not
\* the token still has a row; on a token that was revoked before it leaves the
\* tokens table exactly as it was, and in any case it removes only the rows of
\* the named token, so that every other unexpired session of the user keeps
\* its row.  A logout request for a token without a row does not reach the
\* DELETE: require_auth answers it 401, and the tokens table stays as it was.
C11_RevokeIdempotent == [][C11_Act]_vars

\* A second revocation of a token succeeded without meeting a row while
\* another session of the same user was there.
C11_Witness ==
    \E w \in Workers :
        /\ resp[w].op = "revoke" /\ resp[w].status = 200 /\ ~resp[w].held
        /\ resp[w].token \in revoked
        /\ \E v \in Workers :
              /\ resp[v].op = "login" /\ resp[v].status = 200
              /\ resp[v].token = resp[w].token
              /\ \E t \in tokens : t.user_id = resp[v].user_id /\ t.expires_at >= now

\* C11 as stated: a revocation request for a token that was revoked before is
\* answered with success, like the first.
C11_Original ==
    \A w \in Workers :
        (/\ resp[w].op \in {"logout", "revoke"}
         /\ "token" \in DOMAIN resp[w]
         /\ resp[w].token \in revoked
         /\ \A t \in tokens : t.token # resp[w].token)
            => resp[w].status = 200

----------------------------------------------------------------------------
(* Claims about the parent relation. *)

\* The ids above the rows `ids`, following parent_id upwards.
RECURSIVE Above(_, _)
Above(its, ids) ==
    LET more == {i.parent_id : i \in {j \in its : j.id \in ids}} \ {0}
    IN  IF more \subseteq ids THEN ids ELSE Above(its, ids \cup more)

\* The rows of the subtree of `id`, whoever owns them.
Below(its, id) == {i \in its : i.id \in Closure(its, {id})}

\* C12: in every state reached by interleaved create_folder, upload_file,
\* rename_item, update_privacy and delete_item requests of two users, every
\* row with a parent_id has a parent row that exists, is a folder and has the
\* same owner; every subtree has one owner, and no row is above itself.
C12_ParentInvariant ==
    /\ \A i \in items :
          i.parent_id # 0 =>
              \E p \in items : /\ p.id = i.parent_id /\ p.item_type = "folder"
                                /\ p.owner_id = i.owner_id
    /\ \A i \in items : \A j \in Below(items, i.id) : j.owner_id = i.owner_id
    /\ \A i \in items : i.parent_id # 0 => i.id \notin Above(items, {i.parent_id})

\* An INSERT under a folder was refused because a delete in flight had removed
\* the folder after the parent check, while another row sits under its parent.
C12_Witness ==
    /\ resp["w1"].op = "create_folder" /\ resp["w1"].status = 500
    /\ resp["w2"].op = "delete" /\ resp["w2"].status = 200
    /\ \E i \in items : i.parent_id # 0

----------------------------------------------------------------------------
(* Claims about the privacy flag. *)

\* Worker w is at the UPDATE of an update_privacy of the owner of row i.
C13_Sets(w, i) ==
    /\ req[w].op = "privacy" /\ req[w].pc = "update"
    /\ req[w].item = i.id /\ req[w].user = i.owner_id

C13_Act ==
    /\ \A j \in items' :
          (\A i \in items : i.id # j.id) => j.is_private
    /\ \A i \in items : \A j \in items' :
          (j.id = i.id /\ j.is_private # i.is_private) =>
              /\ i.item_type = "file"
              /\ \E w \in Workers : C13_Sets(w, i) /\ j.is_private = req[w].is_private
    /\ \A w \in Workers :
          IF req[w].op = "privacy" /\ req[w].pc = "reply" /\ req'[w] = Idle
          THEN resp'[w].status = 200
          ELSE TRUE
    /\ \A w \in Workers :
          IF /\ req[w] = Idle /\ req'[w] = Idle /\ resp'[w] # resp[w]
             /\ resp'[w].op = "privacy" /\ resp'[w].status # 401
             /\ resp'[w].input # <<>>
             /\ \E i \in items : /\ i.id = resp'[w].item /\ i.item_type = "folder"
                                   /\ i.owner_id = resp'[w].user
          THEN resp'[w].status = 400 /\ items' = items
          ELSE TRUE

\* C13: a row is private when it is inserted, and the is_private of a row
\* changes only at the UPDATE of an update_privacy of its owner on that file,
\* which is then answered 200; no step of any other handler (sessions,
\* create_folder, upload_file, rename_item, get_share_link, list_files, the
\* public lookups, delete_item of other rows) and no request of another user
\* changes it; update_privacy on a folder answers 400 and changes no row.
C13_PrivacyFrame == [][C13_Act]_vars

\* The owner made one file public while the other user's file stayed
\* private.
C13_Witness ==
    /\ resp["w1"].op = "privacy" /\ resp["w1"].status = 200
    /\ ~resp["w1"].item.isPrivate
    /\ \E i \in items : /\ i.item_type = "file" /\ i.is_private
                          /\ i.owner_id # resp["w1"].user

----------------------------------------------------------------------------
(* Claims about failures. *)

\* Worker w ends its request with a failure.
C14_Fails(w) ==
    /\ req'[w] = Idle /\ (req[w] # Idle \/ resp'[w] # resp[w])
    /\ resp'[w].op # "idle" /\ resp'[w].status >= 400

C14_Act ==
    \A w \in Workers :
        IF C14_Fails(w)
        THEN /\ users' = users /\ tokens' = tokens
             /\ items' = items /\ blobs' = blobs
             /\ (req[w] # Idle /\ req[w].op = "register" /\ req[w].pc = "token")
                    => \A u \in users' : u.id # req[w].user_id
             /\ (req[w] # Idle /\ req[w].op = "upload")
                    => \/ req[w].stored_name \notin blobs'
                       \/ \E i \in items' : i.stored_name = req[w].stored_name
        ELSE TRUE

\* C14: a request that is answered with a failure leaves users, tokens, items
\* and the upload directory as they were when it started: the step that
\* answers changes none of them, a register that fails at create_token leaves
\* no row of its user, and an upload_file that fails at create_share_code or
\* at its INSERT leaves no row and no blob of its own.
C14_FailuresLeaveNoTrace == [][C14_Act]_vars

----------------------------------------------------------------------------
(* Claims about the binding of share codes. *)

----------------------------------------------------------------------------
(* Claims about blobs. *)

\* The stored names of the file rows of `its`.
StoredNames(its) == {i.stored_name : i \in {j \in its : j.item_type = "file"}}

C16_Act ==
    \A w \in Workers :
        /\ IF req[w].op = "delete" /\ req[w].pc = "delete" /\ req'[w] # req[w]
           THEN /\ StoredNames(items \ items') \subseteq req[w].file_rows
                /\ blobs' = blobs
           ELSE TRUE
        /\ IF req[w].op = "delete" /\ req[w].pc = "unlink" /\ req'[w] = Idle
           THEN /\ blobs \ blobs' = req[w].file_rows \cap blobs
                /\ StoredNames(items') \cap req[w].file_rows = {}
           ELSE TRUE

\* C16: under interleaved upload_file and delete_item requests every file row
\* of the items table has its stored name in the upload directory; the DELETE
\* of delete_item removes no file row whose stored name the request has not
\* collected for unlinking and unlinks nothing itself, and the unlink loop
\* removes the collected names and none that a remaining row refers to.
C16_BlobsExist ==
    /\ [](StoredNames(items) \subseteq blobs)
    /\ [][C16_Act]_vars

====
